---------------------------- MODULE Spec2Model ----------------------------
(***************************************************************************)
(* Model of rust-minesweeper (src/src/main.rs): the board of Tiles, the    *)
(* neighbour arithmetic on the flattened index, the random mine placement, *)
(* the recursive reveal and the command loop of main.                      *)
(***************************************************************************)
EXTENDS Integers, FiniteSets, Sequences, TLC

VARIABLES
    row_count,      \* main: row_count (or the grid height handed to a function)
    col_count,      \* main: col_count (or the grid width handed to a function)
    mine_count,     \* main: mine_count (or the count handed to generate_mine_positions)
    board,          \* main: board, a function 0..len-1 -> Tile
    mine_indeces,   \* main: mine_indeces, a set of indices
    mine_capacity,  \* mine_indeces.capacity()
    action,         \* what the last request_input returned (Ok action or Err)
    pc,             \* where the program is
    opens,          \* number of Open actions main has matched so far
    arg,            \* index argument of the function under test
    ret,            \* value returned by the function under test
    stack           \* call stack of reveal_recoursively, when it is run step by step

vars == <<row_count, col_count, mine_count, board, mine_indeces, mine_capacity,
          action, pc, opens, arg, ret, stack>>

-----------------------------------------------------------------------------
(* Bounds of the model *)

\* Tiles that carry a flag at the same time in a session.
MaxFlagged == 1
\* Open actions explored per session.
MaxOpens == 2
\* Largest grid height / width handed to the functions under test.
MaxRows == 4
MaxCols == 4
\* Largest grid height / width on which reveal_tiles is run on its own.
MaxRevealRows == 3
MaxRevealCols == 3
\* Most cells of a grid on which reveal_tiles is run step by step.
MaxCascadeCells == 7
\* Most cells of a grid on which reveal_tiles is called again on an Open tile.
MaxReopenCells == 6
\* Largest mine count handed to the functions under test.
MaxMines == 2
\* Calls of reveal_tiles made in a row on one board, when run on its own.
MaxCalls == 1
\* Steps of reveal_recoursively (loop passes and returns) run per reveal.
MaxRevealSteps == 4096

(* Program constants: main.rs lines 29-31 *)
ROW_COUNT == 10
COL_COUNT == 5
MINE_COUNT == 1

-----------------------------------------------------------------------------
(* enum Tile *)

\* Tile::Open(n) is the number n; the two other variants are negative.
Concealed == -1
Flagged == -2
Open(n) == n
IsOpen(tile) == tile >= 0

Min(a, b) == IF a < b THEN a ELSE b

\* usize::saturating_sub: the difference, 0 when it would be negative.
saturating_sub(a, b) == IF a >= b THEN a - b ELSE 0
\* usize::saturating_add: the sum (the ceiling usize::MAX is far above any
\* index of the boards modelled here).
saturating_add(a, b) == a + b
\* A variant of clamp that has no ceiling.
clamp_floor(x, lo, hi) == IF x < lo THEN lo ELSE x

\* A variant of clamp that takes hi for a length, the first value past the
\* range.
clamp_below(x, lo, hi) == IF x < lo THEN lo ELSE IF x >= hi THEN hi - 1 ELSE x

\* Ord::clamp(lo, hi)
clamp(x, lo, hi) == IF x < lo THEN lo ELSE IF x > hi THEN hi ELSE x

\* fn get_neighbouring_indices: the eight offsets on the flattened index,
\* saturating at 0 and clamped to max_index, collected into a HashSet.
get_neighbouring_indices(index, rows, cols) ==
    LET max_index == rows * cols - 1
    IN  { saturating_sub(index, cols + 1),
          saturating_sub(index, cols),
          saturating_sub(index, cols - 1),
          saturating_sub(index, 1),
          clamp(saturating_add(index, 1), 0, max_index),
          clamp(saturating_add(index, cols - 1), 0, max_index),
          clamp(saturating_add(index, cols), 0, max_index),
          clamp(saturating_add(index, cols + 1), 0, max_index) }

\* fn count_neighbouring_mines
count_neighbouring_mines(tile_idx, bomb_indices, rows, cols) ==
    Cardinality({idx \in get_neighbouring_indices(tile_idx, rows, cols) :
                    idx \in bomb_indices})

\* The filter closure of generate_mine_positions (line 202).
MineCandidate(idx, indices_to_avoid, index_to_avoid) ==
    ~(idx \in indices_to_avoid) \/ idx # index_to_avoid

\* The subsets of S with exactly k members (S a set of integers).
RECURSIVE KSubsets(_, _)
KSubsets(S, k) ==
    IF k = 0 THEN {{}}
    ELSE UNION { { {x} \cup T : T \in KSubsets({y \in S : y > x}, k - 1) } : x \in S }

\* IteratorRandom::choose_multiple(rng, amount): amount distinct items drawn
\* at random, all of them when the iterator yields fewer.  Every draw is a
\* possible outcome.
choose_multiple(S, amount) == KSubsets(S, Min(amount, Cardinality(S)))

\* fn generate_mine_positions: the set of sets the call can return.
generate_mine_positions(count, index_to_avoid, rows, cols) ==
    LET indices_to_avoid == get_neighbouring_indices(index_to_avoid, rows, cols)
        candidates == {idx \in 0..(rows * cols - 1) :
                          MineCandidate(idx, indices_to_avoid, index_to_avoid)}
    IN  choose_multiple(candidates, count)

\* HashSet::capacity() of a set built by HashSet::new() (len 0) or by
\* HashSet::from_iter of len items: 0 for no items, else the usable slots of
\* the smallest table that holds them.
HashCapacity(len) ==
    IF len = 0 THEN 0
    ELSE IF len < 4 THEN 3
    ELSE IF len < 8 THEN 7
    ELSE IF len < 15 THEN 14
    ELSE IF len < 29 THEN 28
    ELSE 56

\* The order in which `for &tile_idx in tiles_to_reveal` visits the set: a
\* HashSet yields its members in an order of its own; the model takes them
\* in ascending order (the step-wise specification SpecCascade takes them in
\* every order).
NextTile(tiles) == CHOOSE t \in tiles : \A u \in tiles : t <= u

\* The tile written by line 97, for a tile that is Concealed.
RevealedTile(tile_idx, mines, rows, cols) ==
    Open(count_neighbouring_mines(tile_idx, mines, rows, cols))

\* A variant of CanReveal that lets an Open tile through the test again.
CanRevealAgain(tile) == tile # Flagged

\* A variant of CanReveal that tests the tile against the wrong variant.
CanRevealFlagged(tile) == tile = Flagged

\* A variant of CanReveal that treats every tile that is not Open as
\* concealed, a flagged one too.
CanRevealUnopened(tile) == tile \in {Concealed, Flagged}

\* Line 94: whether the loop body opens this tile.
CanReveal(tile) == tile = Concealed

\* fn reveal_recoursively, run as a machine: the board and the call stack,
\* innermost call first.  A frame is one call that got past line 87: `rest`
\* are the tiles its for loop has still to visit, `nbrs` its
\* neighbours_to_reveal.
Machine(b, calls) == [board |-> b, stack |-> calls]
Frame(rest, nbrs) == [rest |-> rest, nbrs |-> nbrs]

\* A variant of CallReveal that makes no call from a call that was itself
\* made by reveal_recoursively.
CallRevealShallow(b, calls, tiles_to_reveal) ==
    IF tiles_to_reveal = {} \/ Len(calls) > 1 THEN Machine(b, calls)
    ELSE Machine(b, <<Frame(tiles_to_reveal, {})>> \o calls)

\* Lines 87-89: a call with an empty set returns at once, any other call
\* starts its loop with an empty neighbours_to_reveal.
CallReveal(b, calls, tiles_to_reveal) ==
    IF tiles_to_reveal = {} THEN Machine(b, calls)
    ELSE Machine(b, <<Frame(tiles_to_reveal, {})>> \o calls)

\* A variant of LoopBody whose loop never moves past tile_idx.
LoopBodyAgain(m, tile_idx, mines, rows, cols) ==
    LET top == Head(m.stack)
        hit == CanReveal(m.board[tile_idx])
        opened == RevealedTile(tile_idx, mines, rows, cols)
        b1 == IF hit THEN [m.board EXCEPT ![tile_idx] = opened] ELSE m.board
        n1 == IF hit /\ opened = Open(0)
              THEN top.nbrs \cup
                   {idx \in get_neighbouring_indices(tile_idx, rows, cols) :
                       b1[idx] = Concealed}
              ELSE top.nbrs
    IN  CallReveal(b1, <<Frame(top.rest, n1)>> \o Tail(m.stack), n1)

\* Lines 92-109: one pass of the loop body of the innermost call, for
\* tile_idx, down to the recursive call of line 108.
LoopBody(m, tile_idx, mines, rows, cols) ==
    LET top == Head(m.stack)
        hit == CanReveal(m.board[tile_idx])
        opened == RevealedTile(tile_idx, mines, rows, cols)
        b1 == IF hit THEN [m.board EXCEPT ![tile_idx] = opened] ELSE m.board
        n1 == IF hit /\ opened = Open(0)
              THEN top.nbrs \cup
                   {idx \in get_neighbouring_indices(tile_idx, rows, cols) :
                       b1[idx] = Concealed}
              ELSE top.nbrs
    IN  CallReveal(b1, <<Frame(top.rest \ {tile_idx}, n1)>> \o Tail(m.stack), n1)

\* Line 110: the loop of the innermost call is over, the call returns.
ReturnReveal(m) == Machine(m.board, Tail(m.stack))

\* One step of the machine.
RevealStep(m, mines, rows, cols) ==
    IF m.stack = <<>> THEN m
    ELSE IF Head(m.stack).rest = {} THEN ReturnReveal(m)
    ELSE LoopBody(m, NextTile(Head(m.stack).rest), mines, rows, cols)

\* Up to `steps` steps of the machine, stopping when the outermost call has
\* returned.  The steps are taken in order; the count is halved only to keep
\* the evaluation shallow.
RECURSIVE RunReveal(_, _, _, _, _)
RunReveal(m, steps, mines, rows, cols) ==
    IF m.stack = <<>> \/ steps = 0 THEN m
    ELSE IF steps = 1 THEN RevealStep(m, mines, rows, cols)
    ELSE LET half == RunReveal(m, steps \div 2, mines, rows, cols)
         IN  IF half.stack = <<>> THEN half
             ELSE RunReveal(half, steps - (steps \div 2), mines, rows, cols)

\* fn reveal_recoursively: the machine after the call (its stack is empty
\* when the call has returned within MaxRevealSteps steps).
reveal_recoursively(b, mines, tiles_to_reveal, rows, cols) ==
    RunReveal(CallReveal(b, <<>>, tiles_to_reveal), MaxRevealSteps, mines, rows, cols)

\* fn reveal_tiles
reveal_tiles(b, tile_idx, mines, rows, cols) ==
    reveal_recoursively(b, mines, {tile_idx}, rows, cols)

\* A variant of flag_tile that never takes a flag off.
flag_tile_sticky(tile) ==
    IF tile = Concealed THEN Flagged ELSE tile

\* fn flag_tile: the new value of board[tile_idx].
flag_tile(tile) ==
    IF tile = Flagged THEN Concealed
    ELSE IF tile = Concealed THEN Flagged
    ELSE tile

-----------------------------------------------------------------------------
(* Input lines and fn request_input *)

\* A line typed at the prompt, after trim(): the whole text when it is one
\* word, else its parts split at ' '.  A numeric part is the number it
\* spells; -1 stands for a part that parse::<usize>() rejects.
Line(parts, cmd, row, col) == [parts |-> parts, cmd |-> cmd, row |-> row, col |-> col]

\* The lines typed in the sessions explored: flag and open commands on the
\* first and last column of rows 0, 1 and 5, and a sample of other lines
\* (upper case, an unknown command, parts that are no numbers, a row and a
\* column past the grid, too few parts).
TypedRows == {0, 1, 5}
TypedCols == {0, 4}
InputLines ==
    {Line(3, cmd, row, col) : cmd \in {"f", "x"}, row \in TypedRows, col \in TypedCols}
    \cup {Line(1, "exit", 0, 0), Line(1, "EXIT", 0, 0), Line(1, "x", 0, 0),
          Line(2, "x", 0, 0), Line(3, "F", 0, 4), Line(3, "q", 0, 0),
          Line(3, "x", -1, 0), Line(3, "f", 0, -1),
          Line(3, "x", 10, 0), Line(3, "f", 0, 5), Line(3, "x", 10, 5)}

\* str::to_lowercase on the command word.
to_lowercase(w) ==
    CASE w = "F" -> "f"
      [] w = "X" -> "x"
      [] w = "EXIT" -> "exit"
      [] OTHER -> w

\* The index request_input computes for an accepted row and col (lines 171-172).
TileIndex(row, col, row_size, col_size) == row * row_size + col

Result(kind, idx) == [kind |-> kind, idx |-> idx]

\* fn request_input: Ok(InputAction) or Err(InputError) for a line.
request_input(line, row_size, col_size) ==
    LET cmd == to_lowercase(line.cmd)
    IN  IF line.parts = 1 /\ cmd = "exit" THEN Result("Exit", 0)
        ELSE IF line.parts # 3 THEN Result("ParseError", 0)
        ELSE IF line.row < 0 THEN Result("ParseError", 0)
        ELSE IF line.col < 0 THEN Result("ParseError", 0)
        ELSE IF line.row >= row_size \/ line.col >= col_size
             THEN Result("InvalidCoords", 0)
        ELSE IF cmd = "f"
             THEN Result("Flag", TileIndex(line.row, line.col, row_size, col_size))
        ELSE IF cmd = "x"
             THEN Result("Open", TileIndex(line.row, line.col, row_size, col_size))
        ELSE Result("ParseError", 0)

-----------------------------------------------------------------------------
(* fn main *)

BoardLen == row_count * col_count
InBoard(idx) == idx < BoardLen
FlaggedCount == Cardinality({i \in DOMAIN board : board[i] = Flagged})

\* A variant of NeedsMines that generates the mines on every Open action.
NeedsMinesAlways(capacity) == capacity >= 0

\* Line 54: whether this Open action generates the mines.
NeedsMines(capacity) == capacity = 0

\* A variant of HitsMine without the test of line 59.
HitsNoMine(mines, tile_index) == FALSE

\* A variant of HitsMine that sees a mine only under a tile that is still
\* Concealed (a flagged mine goes unnoticed).
HitsConcealedMine(mines, tile_index) ==
    tile_index \in mines /\ tile_index \in DOMAIN board /\ board[tile_index] = Concealed

\* Line 59: whether this Open action loses the game.
HitsMine(mines, tile_index) == tile_index \in mines

\* The value of `action` between two passes of the loop: the local is
\* bound anew by each pass.
NoAction == Result("None", 0)

Init ==
    /\ row_count = ROW_COUNT
    /\ col_count = COL_COUNT
    /\ mine_count = MINE_COUNT
    /\ board = [i \in 0..(ROW_COUNT * COL_COUNT - 1) |-> Concealed]
    /\ mine_indeces = {}
    /\ mine_capacity = HashCapacity(0)
    /\ action = NoAction
    /\ pc = "prompt"
    /\ opens = 0
    /\ arg = 0
    /\ ret = {}
    /\ stack = <<>>

\* Lines 41-47: request_input reads a line; Ok binds `action`, Err goes to
\* print_parser_error.  The sessions explored type at most MaxOpens open
\* commands and keep at most MaxFlagged tiles flagged.
RequestInput ==
    /\ pc = "prompt"
    /\ \E line \in InputLines :
         LET r == request_input(line, row_count, col_count)
         IN  /\ r.kind = "Open" => opens < MaxOpens
             /\ (r.kind = "Flag" /\ InBoard(r.idx) /\ board[r.idx] = Concealed)
                   => FlaggedCount < MaxFlagged
             /\ action' = r
             /\ pc' = IF r.kind \in {"ParseError", "InvalidCoords"}
                      THEN "error" ELSE "matched"
    /\ UNCHANGED <<row_count, col_count, mine_count, board, mine_indeces,
                   mine_capacity, opens, arg, ret, stack>>

\* A variant of PrintParserError that ends the program after the message.
PrintParserErrorAndReturn ==
    /\ pc = "error"
    /\ pc' = "exited"
    /\ UNCHANGED <<row_count, col_count, mine_count, board, mine_indeces,
                   mine_capacity, action, opens, arg, ret, stack>>

\* Lines 43-46 and fn print_parser_error: the error is printed, a line is
\* read and dropped, and the loop continues.
PrintParserError ==
    /\ pc = "error"
    /\ pc' = "prompt"
    /\ action' = NoAction
    /\ UNCHANGED <<row_count, col_count, mine_count, board, mine_indeces,
                   mine_capacity, opens, arg, ret, stack>>

\* Line 50: InputAction::Exit => return
Exit ==
    /\ pc = "matched"
    /\ action.kind = "Exit"
    /\ pc' = "exited"
    /\ UNCHANGED <<row_count, col_count, mine_count, board, mine_indeces,
                   mine_capacity, action, opens, arg, ret, stack>>

\* Line 51: InputAction::Flag(tile_index) => flag_tile(&mut board, tile_index);
\* board[tile_idx] panics when tile_idx is outside the board.
Flag ==
    /\ pc = "matched"
    /\ action.kind = "Flag"
    /\ IF InBoard(action.idx)
       THEN /\ board' = [board EXCEPT ![action.idx] = flag_tile(board[action.idx])]
            /\ pc' = "prompt"
            /\ action' = NoAction
       ELSE /\ board' = board
            /\ pc' = "panicked"
            /\ action' = action
    /\ UNCHANGED <<row_count, col_count, mine_count, mine_indeces,
                   mine_capacity, opens, arg, ret, stack>>

\* Lines 52-65: InputAction::Open(tile_index).  The mines are generated when
\* the set has no capacity; a mine under tile_index ends the game; else
\* reveal_tiles runs, and panics at board[tile_idx] when tile_index is
\* outside the board.
OpenTile ==
    /\ pc = "matched"
    /\ action.kind = "Open"
    /\ \E mines \in (IF NeedsMines(mine_capacity)
                     THEN generate_mine_positions(mine_count, action.idx,
                                                  row_count, col_count)
                     ELSE {mine_indeces}) :
         /\ mine_indeces' = mines
         /\ mine_capacity' = IF NeedsMines(mine_capacity)
                             THEN HashCapacity(Cardinality(mines))
                             ELSE mine_capacity
         /\ IF HitsMine(mines, action.idx)
            THEN /\ pc' = "lost"
                 /\ board' = board
                 /\ action' = action
            ELSE IF InBoard(action.idx)
            THEN LET m == reveal_tiles(board, action.idx, mines, row_count, col_count)
                 IN  /\ board' = m.board
                     /\ pc' = IF m.stack = <<>> THEN "prompt" ELSE "revealing"
                     /\ action' = IF m.stack = <<>> THEN NoAction ELSE action
            ELSE /\ pc' = "panicked"
                 /\ board' = board
                 /\ action' = action
    /\ opens' = opens + 1
    /\ UNCHANGED <<row_count, col_count, mine_count, arg, ret, stack>>

Next == RequestInput \/ PrintParserError \/ Exit \/ Flag \/ OpenTile

Spec == Init /\ [][Next]_vars

-----------------------------------------------------------------------------
(* The functions on their own, on every small grid and on the program's *)

Grids == {<<r, c>> : r \in 1..MaxRows, c \in 1..MaxCols}
Cells(rows, cols) == 0..(rows * cols - 1)

\* get_neighbouring_indices(arg, row_count, col_count) is about to be called.
InitNeighbours ==
    /\ \/ /\ row_count = ROW_COUNT
          /\ col_count = COL_COUNT
          /\ arg \in Cells(ROW_COUNT, COL_COUNT)
       \/ \E g \in Grids :
            /\ row_count = g[1]
            /\ col_count = g[2]
            /\ arg \in Cells(g[1], g[2])
    /\ mine_count = 0
    /\ board = <<>>
    /\ mine_indeces = {}
    /\ mine_capacity = 0
    /\ action = NoAction
    /\ pc = "call"
    /\ opens = 0
    /\ ret = {}
    /\ stack = <<>>

NeighboursCall ==
    /\ pc = "call"
    /\ ret' = get_neighbouring_indices(arg, row_count, col_count)
    /\ pc' = "returned"
    /\ UNCHANGED <<row_count, col_count, mine_count, board, mine_indeces,
                   mine_capacity, action, opens, arg, stack>>

SpecNeighbours == InitNeighbours /\ [][NeighboursCall]_vars

\* generate_mine_positions(mine_count, arg, row_count, col_count) is about to
\* be called: any count up to MaxMines on the small grids, the program's
\* count on the program's grid.
InitPlace ==
    /\ \/ /\ row_count = ROW_COUNT
          /\ col_count = COL_COUNT
          /\ arg \in Cells(ROW_COUNT, COL_COUNT)
          /\ mine_count = MINE_COUNT
       \/ \E g \in Grids :
            /\ row_count = g[1]
            /\ col_count = g[2]
            /\ arg \in Cells(g[1], g[2])
            /\ mine_count \in 0..MaxMines
    /\ board = <<>>
    /\ mine_indeces = {}
    /\ mine_capacity = 0
    /\ action = NoAction
    /\ pc = "call"
    /\ opens = 0
    /\ ret = {}
    /\ stack = <<>>

\* The call returns one of the sets the random draw can produce.
GenerateCall ==
    /\ pc = "call"
    /\ mine_indeces' \in generate_mine_positions(mine_count, arg, row_count, col_count)
    /\ mine_capacity' = HashCapacity(Cardinality(mine_indeces'))
    /\ pc' = "returned"
    /\ UNCHANGED <<row_count, col_count, mine_count, board, action, opens, arg, ret, stack>>

SpecPlace == InitPlace /\ [][GenerateCall]_vars

\* A board of Concealed tiles on a small grid with any set of at most
\* MaxMines mines; reveal_tiles is called on it, up to MaxCalls times in a
\* row, for any tile that is no mine (main never calls it for a mine).
RevealGrids == {<<r, c>> : r \in 1..MaxRevealRows, c \in 1..MaxRevealCols}

InitReveal ==
    /\ \E g \in RevealGrids :
         /\ row_count = g[1]
         /\ col_count = g[2]
         /\ board = [i \in Cells(g[1], g[2]) |-> Concealed]
         /\ \E k \in 0..MaxMines : mine_indeces \in KSubsets(Cells(g[1], g[2]), k)
    /\ mine_count = Cardinality(mine_indeces)
    /\ mine_capacity = HashCapacity(Cardinality(mine_indeces))
    /\ action = NoAction
    /\ pc = "call"
    /\ opens = 0
    /\ arg = 0
    /\ ret = {}
    /\ stack = <<>>

RevealCall ==
    /\ pc \in {"call", "returned"}
    /\ opens < MaxCalls
    /\ \E tile_idx \in Cells(row_count, col_count) \ mine_indeces :
         LET m == reveal_tiles(board, tile_idx, mine_indeces, row_count, col_count)
         IN  /\ arg' = tile_idx
             /\ board' = m.board
             /\ pc' = IF m.stack = <<>> THEN "returned" ELSE "revealing"
    /\ opens' = opens + 1
    /\ UNCHANGED <<row_count, col_count, mine_count, mine_indeces,
                   mine_capacity, action, ret, stack>>

SpecReveal == InitReveal /\ [][RevealCall]_vars

\* reveal_tiles(board, arg, mine_indeces, ..) run step by step on a board of
\* Concealed tiles: the call of line 77 has just been made.  Each step is one
\* pass of the loop body of the innermost call, for any tile its set still
\* holds (a HashSet yields its members in an order of its own), or the
\* return of that call.
CascadeGrids ==
    {g \in (1..MaxCascadeCells) \X (1..MaxCascadeCells) : g[1] * g[2] <= MaxCascadeCells}

InitCascade ==
    /\ \E g \in CascadeGrids :
         /\ row_count = g[1]
         /\ col_count = g[2]
         /\ board = [i \in Cells(g[1], g[2]) |-> Concealed]
         /\ \E k \in 0..MaxMines : mine_indeces \in KSubsets(Cells(g[1], g[2]), k)
         /\ arg \in Cells(g[1], g[2]) \ mine_indeces
    /\ stack = CallReveal(board, <<>>, {arg}).stack
    /\ mine_count = Cardinality(mine_indeces)
    /\ mine_capacity = HashCapacity(Cardinality(mine_indeces))
    /\ action = NoAction
    /\ pc = "revealing"
    /\ opens = 0
    /\ ret = {}

CascadeLoopBody ==
    /\ pc = "revealing"
    /\ stack # <<>>
    /\ \E tile_idx \in Head(stack).rest :
         LET m == LoopBody(Machine(board, stack), tile_idx, mine_indeces,
                           row_count, col_count)
         IN  /\ board' = m.board
             /\ stack' = m.stack
    /\ UNCHANGED <<row_count, col_count, mine_count, mine_indeces, mine_capacity,
                   action, pc, opens, arg, ret>>

CascadeReturn ==
    /\ pc = "revealing"
    /\ stack # <<>>
    /\ Head(stack).rest = {}
    /\ stack' = ReturnReveal(Machine(board, stack)).stack
    /\ pc' = IF stack' = <<>> THEN "returned" ELSE "revealing"
    /\ UNCHANGED <<row_count, col_count, mine_count, board, mine_indeces,
                   mine_capacity, action, opens, arg, ret>>

SpecCascade == InitCascade /\ [][CascadeLoopBody \/ CascadeReturn]_vars

\* The same, with the steps of the call never held back: a call that can
\* take a step takes one.
FairCascade == SpecCascade /\ WF_vars(CascadeLoopBody \/ CascadeReturn)

\* Whatever the order in which the loops visit their sets, the board the
\* call leaves is the one reveal_tiles computes.
CascadeOrderFree ==
    pc = "returned" =>
        board = reveal_tiles([i \in DOMAIN board |-> Concealed], arg, mine_indeces,
                             row_count, col_count).board

\* reveal_tiles is about to be called again, on a tile `arg` that is Open.
\* The board is one main can hold after its first reveal: some tiles were
\* flagged, reveal_tiles ran on the Concealed tile `first`, and some of the
\* flags were taken off afterwards.
ReopenGrids ==
    {g \in (1..MaxReopenCells) \X (1..MaxReopenCells) : g[1] * g[2] <= MaxReopenCells}

InitReopen ==
    /\ \E g \in ReopenGrids :
         /\ row_count = g[1]
         /\ col_count = g[2]
         /\ \E k \in 0..MaxMines : mine_indeces \in KSubsets(Cells(g[1], g[2]), k)
         /\ \E n \in 0..MaxFlagged :
              \E flagged \in KSubsets(Cells(g[1], g[2]), n) :
                \E unflagged \in SUBSET flagged :
                  \E first \in Cells(g[1], g[2]) \ (mine_indeces \cup flagged) :
                    LET b0 == [i \in Cells(g[1], g[2]) |->
                                  IF i \in flagged THEN flag_tile(Concealed) ELSE Concealed]
                        m == reveal_tiles(b0, first, mine_indeces, g[1], g[2])
                    IN  /\ m.stack = <<>>
                        /\ board = [i \in Cells(g[1], g[2]) |->
                                       IF i \in unflagged THEN flag_tile(m.board[i])
                                       ELSE m.board[i]]
         /\ arg \in {i \in Cells(g[1], g[2]) : IsOpen(board[i])}
    /\ mine_count = Cardinality(mine_indeces)
    /\ mine_capacity = HashCapacity(Cardinality(mine_indeces))
    /\ action = NoAction
    /\ pc = "call"
    /\ opens = 1
    /\ ret = {}
    /\ stack = <<>>

ReopenCall ==
    /\ pc = "call"
    /\ LET m == reveal_tiles(board, arg, mine_indeces, row_count, col_count)
       IN  /\ board' = m.board
           /\ pc' = IF m.stack = <<>> THEN "returned" ELSE "revealing"
    /\ opens' = opens + 1
    /\ UNCHANGED <<row_count, col_count, mine_count, mine_indeces,
                   mine_capacity, action, arg, ret, stack>>

SpecReopen == InitReopen /\ [][ReopenCall]_vars

-----------------------------------------------------------------------------
(* The grid as the game means it: rows, columns and the 8-neighbourhood *)

RowOf(i, cols) == i \div cols
ColOf(i, cols) == i % cols
Dist(a, b) == IF a >= b THEN a - b ELSE b - a

\* The cells of the grid one step away from i in the 8 compass directions.
Adjacent(i, rows, cols) ==
    {j \in Cells(rows, cols) :
        /\ j # i
        /\ Dist(RowOf(i, cols), RowOf(j, cols)) <= 1
        /\ Dist(ColOf(i, cols), ColOf(j, cols)) <= 1}

\* The number of mines in the 8-neighbourhood of i.
AdjacentMines(i, mines, rows, cols) == Cardinality(Adjacent(i, rows, cols) \cap mines)

\* The cells reachable from the cells of S through chains of 8-adjacent
\* cells that have no mine in their 8-neighbourhood.
RECURSIVE ZeroRegion(_, _, _, _)
ZeroRegion(S, mines, rows, cols) ==
    LET more == S \cup UNION {Adjacent(i, rows, cols) :
                               i \in {j \in S : AdjacentMines(j, mines, rows, cols) = 0}}
    IN  IF more = S THEN S ELSE ZeroRegion(more, mines, rows, cols)

OpenCells == {i \in DOMAIN board : IsOpen(board[i])}
AllConcealed == \A i \in DOMAIN board : board[i] = Concealed

-----------------------------------------------------------------------------
(* The claims *)

\* C1 (mine exclusion): no mine returned by generate_mine_positions is the
\* origin or one of get_neighbouring_indices(origin).
MineExclusion ==
    pc = "returned" =>
        \A m \in mine_indeces :
            /\ m # arg
            /\ m \notin get_neighbouring_indices(arg, row_count, col_count)

\* C2 (first move is never a loss): the first Open action of a session never
\* ends it with "You lost!".
FirstOpenNeverLoses == ~(pc = "lost" /\ opens = 1)

\* C3 (index bound): the index carried by an accepted Flag or Open action is
\* at most row_count * col_count - 1.
AcceptedIndexInBoard ==
    action.kind \in {"Flag", "Open"} => action.idx <= row_count * col_count - 1

\* C4 (zero-cascade correctness): reveal_tiles on a board of Concealed tiles
\* and a tile that is no mine opens exactly the zero region of that tile:
\* the tile, and every cell reached from it through 8-adjacent cells without
\* a mine in their 8-neighbourhood.
ZeroCascadeCorrect ==
    [][(AllConcealed /\ pc' = "returned")
         => OpenCells' = ZeroRegion({arg'}, mine_indeces, row_count, col_count)]_vars

\* C5 (open count correctness): every Open(n) tile carries the number of
\* mines in its 8-neighbourhood, and 0 <= n <= 8.
OpenCountCorrect ==
    \A i \in OpenCells :
        /\ board[i] = Open(AdjacentMines(i, mine_indeces, row_count, col_count))
        /\ board[i] >= 0
        /\ board[i] <= 8

\* C6 (neighbour contract): get_neighbouring_indices returns exactly the
\* cells of the grid one step away in the 8 compass directions.
NeighbourContract ==
    pc = "returned" => ret = Adjacent(arg, row_count, col_count)

\* C7 (loss determinism): an Open action on an index of the mine set, whatever
\* the state of its tile, ends the game as lost and changes no tile.
LossDeterminism ==
    [][(pc = "matched" /\ action.kind = "Open" /\ action.idx \in mine_indeces')
         => (pc' = "lost" /\ board' = board)]_vars

\* A flagged mine has been opened and the game is lost.
LostOnFlaggedMine ==
    /\ pc = "lost"
    /\ opens = 2
    /\ action.idx \in mine_indeces
    /\ board[action.idx] = Flagged

\* C8 (the mine set is created exactly once): it is empty until the first Open
\* action, generated by that action, and the same in every later state; an
\* action that is no Open action never changes it.
MinesCreatedOnce ==
    [][/\ opens = 0 => mine_indeces = {}
       /\ (opens = 0 /\ opens' = 1) => mine_indeces' # {}
       /\ opens > 0 => mine_indeces' = mine_indeces
       /\ opens' = opens => mine_indeces' = mine_indeces]_vars

\* A second Open action has run its reveal on the mines the first one placed.
SecondOpenDone ==
    /\ pc = "prompt"
    /\ opens = 2
    /\ mine_indeces # {}
    /\ \E i \in OpenCells : board[i] = Open(0)

\* C9 (mine count bound): generate_mine_positions(k, origin, R, C) returns
\* min(k, R*C - 1 - |get_neighbouring_indices(origin, R, C)|) mines.
MineCountBound ==
    pc = "returned" =>
        Cardinality(mine_indeces) =
            Min(mine_count,
                row_count * col_count - 1
                  - Cardinality(get_neighbouring_indices(arg, row_count, col_count)))

\* C10 (cell transition rules): a tile changes only from Concealed to Flagged
\* or back, by a Flag action on it, or from Concealed to Open(n), by an Open
\* action; an Open tile never changes and a Flagged tile is never opened.
TileTransitions ==
    [][\A i \in DOMAIN board :
         board'[i] # board[i] =>
            \/ /\ action.kind = "Flag"
               /\ action.idx = i
               /\ \/ board[i] = Concealed /\ board'[i] = Flagged
                  \/ board[i] = Flagged /\ board'[i] = Concealed
            \/ /\ action.kind = "Open"
               /\ board[i] = Concealed
               /\ IsOpen(board'[i])]_vars

\* A cascade has passed next to a flagged tile: the tile is still Flagged
\* and one of its neighbours is Open(0).
CascadePassedFlag ==
    /\ pc = "prompt"
    /\ \E i \in DOMAIN board :
         /\ board[i] = Flagged
         /\ \E j \in get_neighbouring_indices(i, row_count, col_count) :
              board[j] = Open(0)

\* C11 (flag toggle): a Flag action on a tile of the board turns Concealed into
\* Flagged and Flagged into Concealed (a second one would give the board
\* back), leaves an Open(n) tile as it is, and changes no other tile and not
\* the mine set, before and after the mines are placed.
FlagToggle ==
    [][(pc = "matched" /\ action.kind = "Flag" /\ InBoard(action.idx)) =>
          LET i == action.idx
          IN  /\ board[i] = Concealed => board'[i] = Flagged
              /\ board[i] = Flagged => board'[i] = Concealed
              /\ IsOpen(board[i]) => board'[i] = board[i]
              /\ DOMAIN board' = DOMAIN board
              /\ \A j \in DOMAIN board \ {i} : board'[j] = board[j]
              /\ [board' EXCEPT ![i] = flag_tile(board'[i])] = board
              /\ mine_indeces' = mine_indeces]_vars

\* After the mines were placed, a Flag action has put a flag on a board that
\* has Open tiles.
FlaggedAfterMines ==
    /\ pc = "prompt"
    /\ mine_indeces # {}
    /\ \E i \in DOMAIN board : board[i] = Flagged
    /\ \E j \in DOMAIN board : IsOpen(board[j])

ConcealedCount == Cardinality({i \in DOMAIN board : board[i] = Concealed})

\* C12 (reveal monotonicity): when reveal_tiles has run for an Open action,
\* every tile that was Open(n) is Open(n) still, and if the tile of the
\* action was Concealed it is now Open and at least one tile fewer is
\* Concealed.
RevealMonotone ==
    [][(pc = "matched" /\ action.kind = "Open" /\ pc' = "prompt") =>
          /\ \A i \in DOMAIN board : IsOpen(board[i]) => board'[i] = board[i]
          /\ board[action.idx] = Concealed =>
                /\ IsOpen(board'[action.idx])
                /\ ConcealedCount' <= ConcealedCount - 1]_vars

\* Two reveals have each opened one Concealed tile next to the mine, the
\* second of them on a board that had an Open tile.
RevealedOnOpenedBoard ==
    /\ pc = "prompt"
    /\ opens = 2
    /\ mine_indeces = {5}
    /\ board[0] = Open(1)
    /\ board[4] = Open(1)
    /\ board[10] = Concealed

\* C13 (idempotent reveal): reveal_tiles on a tile that is Open returns and
\* leaves the whole board as it was, also when the tile is Open(0) and has
\* Concealed or Flagged neighbours.
RevealIdempotent ==
    [][pc = "call" => (pc' = "returned" /\ board' = board)]_vars

\* reveal_tiles has returned from a call on an Open(0) tile that has a
\* Concealed neighbour.
ReopenedZeroTile ==
    /\ pc = "returned"
    /\ board[arg] = Open(0)
    /\ \E j \in get_neighbouring_indices(arg, row_count, col_count) :
         board[j] = Concealed

\* C14 (cascade termination): reveal_tiles returns, and while it runs the
\* calls of reveal_recoursively on the stack are at most one more than the
\* tiles that have left the Concealed state (every call but the outermost
\* was made by a call that had opened a tile), hence at most the number of
\* cells plus one.
CascadeTerminates ==
    /\ <>(pc = "returned")
    /\ [](/\ Len(stack) <= Cardinality(OpenCells) + 1
          /\ Len(stack) <= Cardinality(DOMAIN board) + 1)

\* The call has returned from a cascade that opened at least three tiles and
\* stopped at a tile next to a mine.
CascadeRanAndReturned ==
    /\ pc = "returned"
    /\ stack = <<>>
    /\ Cardinality(OpenCells) >= 3
    /\ \E i \in OpenCells : board[i] # Open(0)

\* The cells that are not in the first or last row or column of the grid.
Interior(rows, cols) ==
    {i \in Cells(rows, cols) :
        /\ RowOf(i, cols) >= 1 /\ RowOf(i, cols) <= rows - 2
        /\ ColOf(i, cols) >= 1 /\ ColOf(i, cols) <= cols - 2}

\* C15 (neighbour symmetry, interior): for an index that is not on the border
\* of the grid, get_neighbouring_indices returns exactly 8 indices, all of
\* the grid, and for interior i and j, i is a neighbour of j iff j is one
\* of i.
InteriorSymmetry ==
    (pc = "returned" /\ arg \in Interior(row_count, col_count)) =>
        /\ Cardinality(ret) = 8
        /\ ret \subseteq Cells(row_count, col_count)
        /\ \A j \in Interior(row_count, col_count) :
              (arg \in get_neighbouring_indices(j, row_count, col_count)) <=> (j \in ret)

\* The call has returned for an interior index of the program's grid that
\* has an interior neighbour.
InteriorCallReturned ==
    /\ pc = "returned"
    /\ row_count = ROW_COUNT
    /\ col_count = COL_COUNT
    /\ arg \in Interior(row_count, col_count)
    /\ ret \cap Interior(row_count, col_count) # {}

\* The frontier algorithm: one wave.  Every index of the frontier that is
\* still Concealed is opened with its count, and when the count is 0 its
\* Concealed neighbours join the next frontier.  Counts and neighbours are
\* those of count_neighbouring_mines and get_neighbouring_indices.
RECURSIVE ProcessFrontier(_, _, _, _, _, _)
ProcessFrontier(b, next, todo, mines, rows, cols) ==
    IF todo = {} THEN [board |-> b, next |-> next]
    ELSE LET i == CHOOSE t \in todo : \A u \in todo : t <= u
             n == count_neighbouring_mines(i, mines, rows, cols)
             b1 == IF b[i] = Concealed THEN [b EXCEPT ![i] = Open(n)] ELSE b
             next1 == IF b[i] = Concealed /\ n = 0
                      THEN next \cup
                           {j \in get_neighbouring_indices(i, rows, cols) :
                               b1[j] = Concealed}
                      ELSE next
         IN  ProcessFrontier(b1, next1, todo \ {i}, mines, rows, cols)

\* The frontier algorithm: waves until the frontier is empty.
RECURSIVE Wavefront(_, _, _, _, _)
Wavefront(b, frontier, mines, rows, cols) ==
    IF frontier = {} THEN b
    ELSE LET wave == ProcessFrontier(b, {}, frontier, mines, rows, cols)
         IN  Wavefront(wave.board, wave.next, mines, rows, cols)

\* C16 (the recursive reveal refines the frontier algorithm): the board an
\* Open action's reveal_tiles leaves is the board the frontier algorithm
\* leaves from the same board, mines and origin.
RevealRefinesWavefront ==
    [][(pc = "matched" /\ action.kind = "Open" /\ pc' = "prompt") =>
          board' = Wavefront(board, {action.idx}, mine_indeces',
                             row_count, col_count)]_vars

\* A reveal has cascaded around a flagged tile and stopped next to the mine.
CascadeAroundFlag ==
    /\ pc = "prompt"
    /\ opens >= 1
    /\ \E i \in DOMAIN board : board[i] = Flagged
    /\ \E i \in OpenCells : board[i] = Open(0)
    /\ \E i \in OpenCells : board[i] = Open(1)
    /\ ConcealedCount <= 5

\* C17 (no Open tile is a mine): in every state of a session, no index of
\* the mine set has an Open tile.
NoOpenMine ==
    \A m \in mine_indeces : m \in DOMAIN board => ~IsOpen(board[m])

\* A reveal has run up to the mine: the mine is Concealed and a tile that
\* counts it is Open.
RevealStoppedAtMine ==
    /\ pc = "prompt"
    /\ mine_indeces # {}
    /\ \A m \in mine_indeces : board[m] = Concealed
    /\ \E m \in mine_indeces :
         \E j \in OpenCells :
            /\ m \in get_neighbouring_indices(j, row_count, col_count)
            /\ board[j] = Open(1)

\* C18 (neighbour indices are in bounds): for an index of a grid with more
\* than one cell, get_neighbouring_indices returns a non-empty set of at most
\* 8 indices, each in 0 .. row_count * col_count - 1.
NeighboursInBounds ==
    (pc = "returned" /\ row_count * col_count > 1) =>
        /\ ret # {}
        /\ Cardinality(ret) <= 8
        /\ \A idx \in ret : idx >= 0 /\ idx <= row_count * col_count - 1

\* The call has returned for the last index of a grid of several rows and
\* columns, where the additions run past max_index.
LastIndexCallReturned ==
    /\ pc = "returned"
    /\ row_count > 1
    /\ col_count > 1
    /\ arg = row_count * col_count - 1
    /\ arg \in ret

\* The lines the interface has to reject: not three parts (and not the exit
\* word), a row or column that is no number, a command that is neither f nor
\* x, a row or column past the grid.
Malformed(line) ==
    \/ line.parts # 3 /\ ~(line.parts = 1 /\ to_lowercase(line.cmd) = "exit")
    \/ line.parts = 3 /\ (line.row < 0 \/ line.col < 0)
    \/ line.parts = 3 /\ to_lowercase(line.cmd) \notin {"f", "x"}
OutOfGrid(line) ==
    line.parts = 3 /\ (line.row >= row_count \/ line.col >= col_count)

\* C19 (rejected input changes nothing): a malformed line or one with a row
\* or column past the grid makes request_input return ParseError or
\* InvalidCoords; the error leaves the board and the mine set as they were,
\* performs no Flag and no Open action, and takes the loop back to the
\* prompt.
RejectedInputChangesNothing ==
    [][/\ \A line \in InputLines :
            (Malformed(line) \/ OutOfGrid(line)) =>
                request_input(line, row_count, col_count).kind
                    \in {"ParseError", "InvalidCoords"}
       /\ (pc = "prompt" /\ action'.kind \in {"ParseError", "InvalidCoords"}) =>
             /\ pc' = "error"
             /\ board' = board
             /\ mine_indeces' = mine_indeces
             /\ opens' = opens
       /\ pc = "error" =>
             /\ pc' = "prompt"
             /\ board' = board
             /\ mine_indeces' = mine_indeces
             /\ mine_capacity' = mine_capacity
             /\ opens' = opens]_vars

\* request_input has rejected a line in the middle of a game: the mines are
\* placed, tiles are Open and one is Flagged.
RejectedMidGame ==
    /\ pc = "error"
    /\ action.kind \in {"ParseError", "InvalidCoords"}
    /\ mine_indeces # {}
    /\ OpenCells # {}
    /\ \E i \in DOMAIN board : board[i] = Flagged

=============================================================================
